---- MODULE Spec2Model ----
(***************************************************************************)
(* Model of rust/cubestore/src/queryplanner/serialized_plan.rs:            *)
(* SerializedPlan (try_new, with_partition_id_to_execute, logical_plan,    *)
(* files_to_download, is_data_select_query) and the two recursive          *)
(* conversions between LogicalPlan/Expr and their serialized forms.        *)
(*                                                                         *)
(* Conventions: an enum value is a record whose "kind" names the variant   *)
(* ("Expr::Alias", "SerializedExpr::Alias", ...); Vec<T> is a sequence;    *)
(* Option<T> is <<>> (None) or <<v>> (Some(v)); Box/Arc of an immutable    *)
(* child is the child value; a String that the code inspects (a table      *)
(* name) is a sequence of one-character strings; a Rust panic is the       *)
(* value Panic, which every enclosing constructor propagates.              *)
(***************************************************************************)
EXTENDS Integers, Sequences, FiniteSets, TLC

VARIABLES
    plan,             \* the LogicalPlan handed to try_new / is_data_select_query
    index_snapshots,  \* the Vec<IndexSnapshot> handed to try_new
    pc,               \* "start" | "built" | "panicked": outcome of try_new
    plan_arcs,        \* allocations of Arc<SerializedLogicalPlan>
    snapshot_arcs,    \* allocations of Arc<SchemaSnapshot>
    plans,            \* the SerializedPlan values alive: plans[1] is try_new's
    last              \* the last call made: [op, self, arg, value]

vars == <<plan, index_snapshots, pc, plan_arcs, snapshot_arcs, plans, last>>

(***************************************************************************)
(* Bounds                                                                  *)
(***************************************************************************)
MaxDerivatives == 2

(***************************************************************************)
(* Generic helpers                                                         *)
(***************************************************************************)
None == <<>>

Some(v) == <<v>>

Range(s) == {s[i] : i \in DOMAIN s}

RECURSIVE Flatten(_)
Flatten(ss) == IF ss = <<>> THEN <<>> ELSE Head(ss) \o Flatten(Tail(ss))

Panic == [kind |-> "Panic"]

IsPanic(v) == v.kind = "Panic"

AnyPanic(vs) == \E i \in DOMAIN vs : IsPanic(vs[i])

(***************************************************************************)
(* Function registry (queryplanner/udfs.rs): name <-> kind <-> descriptor  *)
(***************************************************************************)
scalar_kind_by_name(n) ==
    IF n = "CARDINALITY" THEN Some("CubeScalarUDFKind::HllCardinality") ELSE None

scalar_udf_by_kind(k) ==
    CASE k = "CubeScalarUDFKind::HllCardinality" ->
           [name |-> "CARDINALITY", signature |-> "Exact([Binary])"]

aggregate_kind_by_name(n) ==
    IF n = "MERGE" THEN Some("CubeAggregateUDFKind::MergeHll") ELSE None

aggregate_udf_by_kind(k) ==
    CASE k = "CubeAggregateUDFKind::MergeHll" ->
           [name |-> "MERGE", signature |-> "Exact([Binary])"]

\* Option::unwrap
unwrap_kind(o) == IF o = None THEN Panic ELSE [kind |-> o[1]]

(***************************************************************************)
(* Expr -> SerializedExpr                                                  *)
(***************************************************************************)
RECURSIVE serialized_expr(_)

serialized_exprs(es) == [i \in DOMAIN es |-> serialized_expr(es[i])]

serialized_when_then(wts) ==
    [i \in DOMAIN wts |-> <<serialized_expr(wts[i][1]), serialized_expr(wts[i][2])>>]

serialized_expr(e) ==
    CASE e.kind = "Expr::Alias" ->
           LET x == serialized_expr(e.expr) IN
           IF IsPanic(x) THEN Panic
           ELSE [kind |-> "SerializedExpr::Alias", expr |-> x, alias |-> e.alias]
      [] e.kind = "Expr::Column" ->
           [kind |-> "SerializedExpr::Column", name |-> e.name, relation |-> e.relation]
      [] e.kind = "Expr::ScalarVariable" ->
           [kind |-> "SerializedExpr::ScalarVariable", names |-> e.names]
      [] e.kind = "Expr::Literal" ->
           [kind |-> "SerializedExpr::Literal", value |-> e.value]
      [] e.kind = "Expr::BinaryExpr" ->
           LET l == serialized_expr(e.left)
               r == serialized_expr(e.right) IN
           IF IsPanic(l) \/ IsPanic(r) THEN Panic
           ELSE [kind |-> "SerializedExpr::BinaryExpr", left |-> l, op |-> e.op, right |-> r]
      [] e.kind = "Expr::Not" ->
           LET x == serialized_expr(e.expr) IN
           IF IsPanic(x) THEN Panic ELSE [kind |-> "SerializedExpr::Not", expr |-> x]
      [] e.kind = "Expr::IsNotNull" ->
           LET x == serialized_expr(e.expr) IN
           IF IsPanic(x) THEN Panic ELSE [kind |-> "SerializedExpr::IsNotNull", expr |-> x]
      [] e.kind = "Expr::IsNull" ->
           LET x == serialized_expr(e.expr) IN
           IF IsPanic(x) THEN Panic ELSE [kind |-> "SerializedExpr::IsNull", expr |-> x]
      [] e.kind = "Expr::Cast" ->
           LET x == serialized_expr(e.expr) IN
           IF IsPanic(x) THEN Panic
           ELSE [kind |-> "SerializedExpr::Cast", expr |-> x, data_type |-> e.data_type]
      [] e.kind = "Expr::TryCast" ->
           LET x == serialized_expr(e.expr) IN
           IF IsPanic(x) THEN Panic
           ELSE [kind |-> "SerializedExpr::TryCast", expr |-> x, data_type |-> e.data_type]
      [] e.kind = "Expr::Sort" ->
           LET x == serialized_expr(e.expr) IN
           IF IsPanic(x) THEN Panic
           ELSE [kind |-> "SerializedExpr::Sort", expr |-> x, asc |-> e.asc,
                 nulls_first |-> e.nulls_first]
      [] e.kind = "Expr::ScalarFunction" ->
           LET a == serialized_exprs(e.args) IN
           IF AnyPanic(a) THEN Panic
           ELSE [kind |-> "SerializedExpr::ScalarFunction", fun |-> e.fun, args |-> a]
      [] e.kind = "Expr::ScalarUDF" ->
           LET k == unwrap_kind(scalar_kind_by_name(e.fun.name))
               a == serialized_exprs(e.args) IN
           IF IsPanic(k) \/ AnyPanic(a) THEN Panic
           ELSE [kind |-> "SerializedExpr::ScalarUDF", fun |-> k.kind, args |-> a]
      [] e.kind = "Expr::AggregateFunction" ->
           LET a == serialized_exprs(e.args) IN
           IF AnyPanic(a) THEN Panic
           ELSE [kind |-> "SerializedExpr::AggregateFunction", fun |-> e.fun, args |-> a,
                 distinct |-> e.distinct]
      [] e.kind = "Expr::AggregateUDF" ->
           LET k == unwrap_kind(aggregate_kind_by_name(e.fun.name))
               a == serialized_exprs(e.args) IN
           IF IsPanic(k) \/ AnyPanic(a) THEN Panic
           ELSE [kind |-> "SerializedExpr::AggregateUDF", fun |-> k.kind, args |-> a]
      [] e.kind = "Expr::Case" ->
           LET b == serialized_exprs(e.expr)
               el == serialized_exprs(e.else_expr)
               wt == serialized_when_then(e.when_then_expr) IN
           IF AnyPanic(b) \/ AnyPanic(el)
              \/ \E i \in DOMAIN wt : IsPanic(wt[i][1]) \/ IsPanic(wt[i][2])
           THEN Panic
           ELSE [kind |-> "SerializedExpr::Case", expr |-> b, else_expr |-> el,
                 when_then_expr |-> wt]
      [] e.kind = "Expr::Wildcard" -> [kind |-> "SerializedExpr::Wildcard"]
      [] e.kind = "Expr::Negative" ->
           LET x == serialized_expr(e.expr) IN
           IF IsPanic(x) THEN Panic ELSE [kind |-> "SerializedExpr::Negative", expr |-> x]
      [] e.kind = "Expr::Between" ->
           LET x == serialized_expr(e.expr)
               lo == serialized_expr(e.low)
               hi == serialized_expr(e.high) IN
           IF IsPanic(x) \/ IsPanic(lo) \/ IsPanic(hi) THEN Panic
           ELSE [kind |-> "SerializedExpr::Between", expr |-> x, negated |-> e.negated,
                 low |-> lo, high |-> hi]
      [] e.kind = "Expr::InList" ->
           LET x == serialized_expr(e.expr)
               l == serialized_exprs(e.list) IN
           IF IsPanic(x) \/ AnyPanic(l) THEN Panic
           ELSE [kind |-> "SerializedExpr::InList", expr |-> x, list |-> l,
                 negated |-> e.negated]

(***************************************************************************)
(* SerializedExpr -> Expr                                                  *)
(***************************************************************************)
RECURSIVE SerializedExpr_expr(_)

\* mutant: the converted expressions are collected in reverse order
SerializedExpr_exprs_reversed(es) ==
    [i \in DOMAIN es |-> SerializedExpr_expr(es[Len(es) + 1 - i])]

SerializedExpr_exprs(es) == [i \in DOMAIN es |-> SerializedExpr_expr(es[i])]

SerializedExpr_expr(e) ==
    CASE e.kind = "SerializedExpr::Alias" ->
           [kind |-> "Expr::Alias", expr |-> SerializedExpr_expr(e.expr), alias |-> e.alias]
      [] e.kind = "SerializedExpr::Column" ->
           [kind |-> "Expr::Column", name |-> e.name, relation |-> e.relation]
      [] e.kind = "SerializedExpr::ScalarVariable" ->
           [kind |-> "Expr::ScalarVariable", names |-> e.names]
      [] e.kind = "SerializedExpr::Literal" ->
           [kind |-> "Expr::Literal", value |-> e.value]
      [] e.kind = "SerializedExpr::BinaryExpr" ->
           [kind |-> "Expr::BinaryExpr", left |-> SerializedExpr_expr(e.left), op |-> e.op,
            right |-> SerializedExpr_expr(e.right)]
      [] e.kind = "SerializedExpr::Not" ->
           [kind |-> "Expr::Not", expr |-> SerializedExpr_expr(e.expr)]
      [] e.kind = "SerializedExpr::IsNotNull" ->
           [kind |-> "Expr::IsNotNull", expr |-> SerializedExpr_expr(e.expr)]
      [] e.kind = "SerializedExpr::IsNull" ->
           [kind |-> "Expr::IsNull", expr |-> SerializedExpr_expr(e.expr)]
      [] e.kind = "SerializedExpr::Cast" ->
           [kind |-> "Expr::Cast", expr |-> SerializedExpr_expr(e.expr),
            data_type |-> e.data_type]
      [] e.kind = "SerializedExpr::TryCast" ->
           [kind |-> "Expr::TryCast", expr |-> SerializedExpr_expr(e.expr),
            data_type |-> e.data_type]
      [] e.kind = "SerializedExpr::Sort" ->
           [kind |-> "Expr::Sort", expr |-> SerializedExpr_expr(e.expr), asc |-> e.asc,
            nulls_first |-> e.nulls_first]
      [] e.kind = "SerializedExpr::ScalarFunction" ->
           [kind |-> "Expr::ScalarFunction", fun |-> e.fun,
            args |-> SerializedExpr_exprs(e.args)]
      [] e.kind = "SerializedExpr::ScalarUDF" ->
           [kind |-> "Expr::ScalarUDF", fun |-> scalar_udf_by_kind(e.fun),
            args |-> SerializedExpr_exprs(e.args)]
      [] e.kind = "SerializedExpr::AggregateFunction" ->
           [kind |-> "Expr::AggregateFunction", fun |-> e.fun,
            args |-> SerializedExpr_exprs(e.args), distinct |-> e.distinct]
      [] e.kind = "SerializedExpr::AggregateUDF" ->
           [kind |-> "Expr::AggregateUDF", fun |-> aggregate_udf_by_kind(e.fun),
            args |-> SerializedExpr_exprs(e.args)]
      [] e.kind = "SerializedExpr::Case" ->
           [kind |-> "Expr::Case", expr |-> SerializedExpr_exprs(e.expr),
            else_expr |-> SerializedExpr_exprs(e.else_expr),
            when_then_expr |->
                [i \in DOMAIN e.when_then_expr |->
                    <<SerializedExpr_expr(e.when_then_expr[i][1]),
                      SerializedExpr_expr(e.when_then_expr[i][2])>>]]
      [] e.kind = "SerializedExpr::Wildcard" -> [kind |-> "Expr::Wildcard"]
      [] e.kind = "SerializedExpr::Negative" ->
           [kind |-> "Expr::Negative", expr |-> SerializedExpr_expr(e.expr)]
      [] e.kind = "SerializedExpr::Between" ->
           [kind |-> "Expr::Between", expr |-> SerializedExpr_expr(e.expr),
            negated |-> e.negated, low |-> SerializedExpr_expr(e.low),
            high |-> SerializedExpr_expr(e.high)]
      [] e.kind = "SerializedExpr::InList" ->
           [kind |-> "Expr::InList", expr |-> SerializedExpr_expr(e.expr),
            list |-> SerializedExpr_exprs(e.list), negated |-> e.negated]

(***************************************************************************)
(* Metastore rows (metastore/mod.rs): IdRow<T>, Partition, Chunk           *)
(***************************************************************************)
get_id(idrow) == idrow.id

get_row(idrow) == idrow.row

\* Partition::get_full_name: the partition's file, when it has one
Partition_get_full_name(row, id) ==
    IF row.has_main_table_file THEN Some([file |-> "partition", id |-> id]) ELSE None

\* Chunk::get_full_name: chunks always have a file
Chunk_get_full_name(row, id) == [file |-> "chunk", id |-> id]

\* CubeTable::to_worker_table (queryplanner/query_executor.rs)
to_worker_table(v, remote_to_local_names, worker_partition_ids) ==
    [v EXCEPT !.remote_to_local_names = remote_to_local_names,
              !.worker_partition_ids = worker_partition_ids]

\* ClusterSendNode::into_plan / ClusterAggregateTopK::into_plan
into_plan(node) == [kind |-> "LogicalPlan::Extension", node |-> node]

\* UserDefinedLogicalNode::inputs of the extension nodes
node_inputs(node) ==
    CASE node.type = "ClusterSendNode" -> <<node.input>>
      [] node.type = "ClusterAggregateTopK" -> <<node.input>>
      [] OTHER -> node.inputs

(***************************************************************************)
(* LogicalPlan -> SerializedLogicalPlan                                    *)
(***************************************************************************)
\* mutant: the downcast is not checked, any source is wrapped
serialized_table_source_unchecked(source) ==
    [kind |-> "SerializedTableSource::CubeTable", v |-> source]

\* lines 573-577: the downcast of the scan's source
serialized_table_source(source) ==
    IF source.type = "CubeTable"
    THEN [kind |-> "SerializedTableSource::CubeTable", v |-> source]
    ELSE Panic

\* lines 683-689
serialized_partitioning(ps) ==
    CASE ps.kind = "Partitioning::RoundRobinBatch" ->
           [kind |-> "SerializePartitioning::RoundRobinBatch", n |-> ps.n]
      [] ps.kind = "Partitioning::Hash" ->
           LET e == serialized_exprs(ps.expr) IN
           IF AnyPanic(e) THEN Panic
           ELSE [kind |-> "SerializePartitioning::Hash", expr |-> e, n |-> ps.n]

\* lines 665-677, the children already converted
serialized_join(p, l, r) ==
    [kind |-> "SerializedLogicalPlan::Join", left |-> l, right |-> r, on |-> p.on,
     join_type |-> p.join_type, schema |-> p.schema]

\* lines 625-652, the inner plan already converted
serialized_extension(node, input) ==
    CASE node.type = "ClusterSendNode" ->
           IF IsPanic(input) THEN Panic
           ELSE [kind |-> "SerializedLogicalPlan::ClusterSend", input |-> input,
                 snapshots |-> node.snapshots]
      [] node.type = "ClusterAggregateTopK" ->
           LET g == serialized_exprs(node.group_expr)
               a == serialized_exprs(node.aggregate_expr) IN
           IF IsPanic(input) \/ AnyPanic(g) \/ AnyPanic(a) THEN Panic
           ELSE [kind |-> "SerializedLogicalPlan::ClusterAggregateTopK",
                 limit |-> node.limit, input |-> input, group_expr |-> g,
                 aggregate_expr |-> a, sort_columns |-> node.order_by,
                 schema |-> node.schema, snapshots |-> node.snapshots]
      [] OTHER -> Panic

RECURSIVE serialized_logical_plan(_)

serialized_logical_plan(p) ==
    CASE p.kind = "LogicalPlan::EmptyRelation" ->
           [kind |-> "SerializedLogicalPlan::EmptyRelation",
            produce_one_row |-> p.produce_one_row, schema |-> p.schema]
      [] p.kind = "LogicalPlan::TableScan" ->
           LET s == serialized_table_source(p.source)
               f == serialized_exprs(p.filters) IN
           IF IsPanic(s) \/ AnyPanic(f) THEN Panic
           ELSE [kind |-> "SerializedLogicalPlan::TableScan", table_name |-> p.table_name,
                 source |-> s, alias |-> p.alias, projected_schema |-> p.projected_schema,
                 projection |-> p.projection, filters |-> f, limit |-> p.limit]
      [] p.kind = "LogicalPlan::Projection" ->
           LET i == serialized_logical_plan(p.input)
               e == serialized_exprs(p.expr) IN
           IF IsPanic(i) \/ AnyPanic(e) THEN Panic
           ELSE [kind |-> "SerializedLogicalPlan::Projection", input |-> i, expr |-> e,
                 schema |-> p.schema]
      [] p.kind = "LogicalPlan::Filter" ->
           LET i == serialized_logical_plan(p.input)
               e == serialized_expr(p.predicate) IN
           IF IsPanic(i) \/ IsPanic(e) THEN Panic
           ELSE [kind |-> "SerializedLogicalPlan::Filter", input |-> i, predicate |-> e]
      [] p.kind = "LogicalPlan::Aggregate" ->
           LET i == serialized_logical_plan(p.input)
               g == serialized_exprs(p.group_expr)
               a == serialized_exprs(p.aggr_expr) IN
           IF IsPanic(i) \/ AnyPanic(g) \/ AnyPanic(a) THEN Panic
           ELSE [kind |-> "SerializedLogicalPlan::Aggregate", input |-> i,
                 group_expr |-> g, aggr_expr |-> a, schema |-> p.schema]
      [] p.kind = "LogicalPlan::Sort" ->
           LET i == serialized_logical_plan(p.input)
               e == serialized_exprs(p.expr) IN
           IF IsPanic(i) \/ AnyPanic(e) THEN Panic
           ELSE [kind |-> "SerializedLogicalPlan::Sort", input |-> i, expr |-> e]
      [] p.kind = "LogicalPlan::Limit" ->
           LET i == serialized_logical_plan(p.input) IN
           IF IsPanic(i) THEN Panic
           ELSE [kind |-> "SerializedLogicalPlan::Limit", input |-> i, n |-> p.n]
      [] p.kind = "LogicalPlan::Skip" ->
           LET i == serialized_logical_plan(p.input) IN
           IF IsPanic(i) THEN Panic
           ELSE [kind |-> "SerializedLogicalPlan::Skip", input |-> i, n |-> p.n]
      [] p.kind = "LogicalPlan::CreateExternalTable" -> Panic
      [] p.kind = "LogicalPlan::Explain" -> Panic
      [] p.kind = "LogicalPlan::Extension" ->
           IF p.node.type \in {"ClusterSendNode", "ClusterAggregateTopK"}
           THEN serialized_extension(p.node, serialized_logical_plan(p.node.input))
           ELSE serialized_extension(p.node, Panic)
      [] p.kind = "LogicalPlan::Union" ->
           LET is == [k \in DOMAIN p.inputs |-> serialized_logical_plan(p.inputs[k])] IN
           IF AnyPanic(is) THEN Panic
           ELSE [kind |-> "SerializedLogicalPlan::Union", inputs |-> is,
                 schema |-> p.schema, alias |-> p.alias]
      [] p.kind = "LogicalPlan::Join" ->
           LET l == serialized_logical_plan(p.left)
               r == serialized_logical_plan(p.right) IN
           IF IsPanic(l) \/ IsPanic(r) THEN Panic ELSE serialized_join(p, l, r)
      [] p.kind = "LogicalPlan::Repartition" ->
           LET i == serialized_logical_plan(p.input)
               s == serialized_partitioning(p.partitioning_scheme) IN
           IF IsPanic(i) \/ IsPanic(s) THEN Panic
           ELSE [kind |-> "SerializedLogicalPlan::Repartition", input |-> i,
                 partitioning_scheme |-> s]

(***************************************************************************)
(* SerializedLogicalPlan -> LogicalPlan                                    *)
(***************************************************************************)
\* mutant: the stored table is cloned as it is, to_worker_table is not called
logical_plan_table_source_unbound(source, remote_to_local_names, worker_partition_ids) ==
    CASE source.kind = "SerializedTableSource::CubeTable" -> source.v

\* lines 219-224: the scan's source is bound to the worker's inputs
logical_plan_table_source(source, remote_to_local_names, worker_partition_ids) ==
    CASE source.kind = "SerializedTableSource::CubeTable" ->
           to_worker_table(source.v, remote_to_local_names, worker_partition_ids)

\* lines 264-269
logical_plan_partitioning(ps) ==
    CASE ps.kind = "SerializePartitioning::RoundRobinBatch" ->
           [kind |-> "Partitioning::RoundRobinBatch", n |-> ps.n]
      [] ps.kind = "SerializePartitioning::Hash" ->
           [kind |-> "Partitioning::Hash", expr |-> SerializedExpr_exprs(ps.expr), n |-> ps.n]

\* mutant: left and right change places
logical_plan_join_swapped(p, l, r) ==
    [kind |-> "LogicalPlan::Join", left |-> r, right |-> l, on |-> p.on,
     join_type |-> p.join_type, schema |-> p.schema]

\* lines 246-258, the children already converted
logical_plan_join(p, l, r) ==
    [kind |-> "LogicalPlan::Join", left |-> l, right |-> r, on |-> p.on,
     join_type |-> p.join_type, schema |-> p.schema]

\* mutant: the node is rebuilt without the snapshot lists
logical_plan_cluster_send_no_snapshots(p, input) ==
    into_plan([type |-> "ClusterSendNode", input |-> input, snapshots |-> <<>>])

\* lines 271-275, the inner plan already converted
logical_plan_cluster_send(p, input) ==
    into_plan([type |-> "ClusterSendNode", input |-> input, snapshots |-> p.snapshots])

\* lines 276-293, the inner plan already converted
logical_plan_topk(p, input) ==
    into_plan([type |-> "ClusterAggregateTopK", limit |-> p.limit, input |-> input,
               group_expr |-> SerializedExpr_exprs(p.group_expr),
               aggregate_expr |-> SerializedExpr_exprs(p.aggregate_expr),
               order_by |-> p.sort_columns, schema |-> p.schema,
               snapshots |-> p.snapshots])

RECURSIVE SerializedLogicalPlan_logical_plan(_, _, _)

SerializedLogicalPlan_logical_plan(p, m, w) ==
    CASE p.kind = "SerializedLogicalPlan::Projection" ->
           [kind |-> "LogicalPlan::Projection", expr |-> SerializedExpr_exprs(p.expr),
            input |-> SerializedLogicalPlan_logical_plan(p.input, m, w),
            schema |-> p.schema]
      [] p.kind = "SerializedLogicalPlan::Filter" ->
           [kind |-> "LogicalPlan::Filter", predicate |-> SerializedExpr_expr(p.predicate),
            input |-> SerializedLogicalPlan_logical_plan(p.input, m, w)]
      [] p.kind = "SerializedLogicalPlan::Aggregate" ->
           [kind |-> "LogicalPlan::Aggregate",
            group_expr |-> SerializedExpr_exprs(p.group_expr),
            aggr_expr |-> SerializedExpr_exprs(p.aggr_expr),
            input |-> SerializedLogicalPlan_logical_plan(p.input, m, w),
            schema |-> p.schema]
      [] p.kind = "SerializedLogicalPlan::Sort" ->
           [kind |-> "LogicalPlan::Sort", expr |-> SerializedExpr_exprs(p.expr),
            input |-> SerializedLogicalPlan_logical_plan(p.input, m, w)]
      [] p.kind = "SerializedLogicalPlan::Union" ->
           [kind |-> "LogicalPlan::Union",
            inputs |-> [k \in DOMAIN p.inputs |->
                           SerializedLogicalPlan_logical_plan(p.inputs[k], m, w)],
            schema |-> p.schema, alias |-> p.alias]
      [] p.kind = "SerializedLogicalPlan::TableScan" ->
           [kind |-> "LogicalPlan::TableScan", table_name |-> p.table_name,
            source |-> logical_plan_table_source(p.source, m, w),
            projection |-> p.projection, projected_schema |-> p.projected_schema,
            filters |-> SerializedExpr_exprs(p.filters), alias |-> p.alias,
            limit |-> p.limit]
      [] p.kind = "SerializedLogicalPlan::EmptyRelation" ->
           [kind |-> "LogicalPlan::EmptyRelation", produce_one_row |-> p.produce_one_row,
            schema |-> p.schema]
      [] p.kind = "SerializedLogicalPlan::Limit" ->
           [kind |-> "LogicalPlan::Limit", n |-> p.n,
            input |-> SerializedLogicalPlan_logical_plan(p.input, m, w)]
      [] p.kind = "SerializedLogicalPlan::Skip" ->
           [kind |-> "LogicalPlan::Skip", n |-> p.n,
            input |-> SerializedLogicalPlan_logical_plan(p.input, m, w)]
      [] p.kind = "SerializedLogicalPlan::Join" ->
           logical_plan_join(p, SerializedLogicalPlan_logical_plan(p.left, m, w),
                             SerializedLogicalPlan_logical_plan(p.right, m, w))
      [] p.kind = "SerializedLogicalPlan::Repartition" ->
           [kind |-> "LogicalPlan::Repartition",
            input |-> SerializedLogicalPlan_logical_plan(p.input, m, w),
            partitioning_scheme |-> logical_plan_partitioning(p.partitioning_scheme)]
      [] p.kind = "SerializedLogicalPlan::ClusterSend" ->
           logical_plan_cluster_send(p, SerializedLogicalPlan_logical_plan(p.input, m, w))
      [] p.kind = "SerializedLogicalPlan::ClusterAggregateTopK" ->
           logical_plan_topk(p, SerializedLogicalPlan_logical_plan(p.input, m, w))

(***************************************************************************)
(* SerializedPlan                                                          *)
(***************************************************************************)
\* lines 462-472.  The result names the two Arc allocations it makes.
try_new(p, snapshots) ==
    LET serialized == serialized_logical_plan(p) IN
    IF IsPanic(serialized) THEN Panic
    ELSE [kind |-> "Ok",
          new_plan_arc |-> serialized,
          new_snapshot_arc |-> [index_snapshots |-> snapshots],
          value |-> [logical_plan |-> Len(plan_arcs) + 1,
                     schema_snapshot |-> Len(snapshot_arcs) + 1,
                     partition_ids_to_execute |-> {}]]

\* mutant: the supplied ids are added to the source's instead of replacing them
with_partition_id_to_execute_extend(self, partition_ids) ==
    [logical_plan |-> self.logical_plan,
     schema_snapshot |-> self.schema_snapshot,
     partition_ids_to_execute |-> self.partition_ids_to_execute \cup partition_ids]

\* mutant: ids that no partition of the schema snapshot has are dropped
with_partition_id_to_execute_drop_orphans(self, partition_ids) ==
    LET indexes == snapshot_arcs[self.schema_snapshot].index_snapshots IN
    [logical_plan |-> self.logical_plan,
     schema_snapshot |-> self.schema_snapshot,
     partition_ids_to_execute |->
        {id \in partition_ids :
            \E i \in DOMAIN indexes : \E k \in DOMAIN indexes[i].partitions :
               get_id(indexes[i].partitions[k].partition) = id}]

\* lines 474-480: Arc::clone copies the reference
with_partition_id_to_execute(self, partition_ids) ==
    [logical_plan |-> self.logical_plan,
     schema_snapshot |-> self.schema_snapshot,
     partition_ids_to_execute |-> partition_ids]

\* lines 482-484
partition_ids_to_execute(self) == self.partition_ids_to_execute

\* mutant: the partition ids are those of the most recent derivative, as if
\* the set were shared between the derivatives like the tree and the snapshot
SerializedPlan_logical_plan_shared_ids(self, remote_to_local_names) ==
    SerializedLogicalPlan_logical_plan(plan_arcs[self.logical_plan],
                                       remote_to_local_names,
                                       plans[Len(plans)].partition_ids_to_execute)

\* lines 486-492
SerializedPlan_logical_plan(self, remote_to_local_names) ==
    SerializedLogicalPlan_logical_plan(plan_arcs[self.logical_plan],
                                       remote_to_local_names,
                                       partition_ids_to_execute(self))

\* mutant: the lists are looked up in the metadata store at each use instead of
\* being the ones captured by try_new
SerializedPlan_index_snapshots_live(self) == index_snapshots

\* lines 494-496
SerializedPlan_index_snapshots(self) ==
    snapshot_arcs[self.schema_snapshot].index_snapshots

\* mutant: the chunks are pushed before the partition's own file
partition_files_chunks_first(self, partition) ==
    IF get_id(partition.partition) \notin self.partition_ids_to_execute
    THEN <<>>
    ELSE [c \in DOMAIN partition.chunks |->
             Chunk_get_full_name(get_row(partition.chunks[c]), get_id(partition.chunks[c]))]
         \o Partition_get_full_name(get_row(partition.partition),
                                    get_id(partition.partition))

\* mutant: the membership test is inverted (the "!" is lost)
partition_files_inverted(self, partition) ==
    IF get_id(partition.partition) \in self.partition_ids_to_execute
    THEN <<>>
    ELSE Partition_get_full_name(get_row(partition.partition), get_id(partition.partition))
         \o [c \in DOMAIN partition.chunks |->
                Chunk_get_full_name(get_row(partition.chunks[c]),
                                    get_id(partition.chunks[c]))]

\* mutant: an empty partition-id set is read as "no restriction"
partition_files_empty_is_all(self, partition) ==
    IF /\ self.partition_ids_to_execute /= {}
       /\ get_id(partition.partition) \notin self.partition_ids_to_execute
    THEN <<>>
    ELSE Partition_get_full_name(get_row(partition.partition), get_id(partition.partition))
         \o [c \in DOMAIN partition.chunks |->
                Chunk_get_full_name(get_row(partition.chunks[c]),
                                    get_id(partition.chunks[c]))]

\* lines 504-521: what one PartitionSnapshot adds to the list
partition_files(self, partition) ==
    IF get_id(partition.partition) \notin self.partition_ids_to_execute
    THEN <<>>
    ELSE Partition_get_full_name(get_row(partition.partition), get_id(partition.partition))
         \o [c \in DOMAIN partition.chunks |->
                Chunk_get_full_name(get_row(partition.chunks[c]),
                                    get_id(partition.chunks[c]))]

RECURSIVE Dedup(_)
Dedup(fs) ==
    IF fs = <<>> THEN <<>>
    ELSE LET front == Dedup(SubSeq(fs, 1, Len(fs) - 1)) IN
         IF fs[Len(fs)] \in Range(front) THEN front ELSE Append(front, fs[Len(fs)])

\* mutant: a file already in the list is not pushed again
files_to_download_dedup(self) ==
    LET indexes == SerializedPlan_index_snapshots(self) IN
    Dedup(Flatten([i \in DOMAIN indexes |->
                      Flatten([k \in DOMAIN indexes[i].partitions |->
                                  IF get_id(indexes[i].partitions[k].partition)
                                        \notin self.partition_ids_to_execute
                                  THEN <<>>
                                  ELSE Partition_get_full_name(
                                           get_row(indexes[i].partitions[k].partition),
                                           get_id(indexes[i].partitions[k].partition))
                                       \o [c \in DOMAIN indexes[i].partitions[k].chunks |->
                                              Chunk_get_full_name(
                                                  get_row(indexes[i].partitions[k].chunks[c]),
                                                  get_id(indexes[i].partitions[k].chunks[c]))]])]))

\* mutant: the snapshot lists carried by a distributed operator at the top of
\* the plan are resolved too
files_to_download_with_embedded(self) ==
    LET tree == plan_arcs[self.logical_plan]
        indexes ==
            SerializedPlan_index_snapshots(self)
            \o (IF tree.kind \in {"SerializedLogicalPlan::ClusterSend",
                                  "SerializedLogicalPlan::ClusterAggregateTopK"}
                THEN Flatten(tree.snapshots) ELSE <<>>)
    IN Flatten([i \in DOMAIN indexes |->
                   Flatten([k \in DOMAIN indexes[i].partitions |->
                               partition_files(self, indexes[i].partitions[k])])])

\* lines 498-526
files_to_download(self) ==
    LET indexes == SerializedPlan_index_snapshots(self) IN
    Flatten([i \in DOMAIN indexes |->
                Flatten([k \in DOMAIN indexes[i].partitions |->
                            partition_files(self, indexes[i].partitions[k])])])

(***************************************************************************)
(* is_data_select_query                                                    *)
(***************************************************************************)
Dot == "."

information_schema ==
    <<"i", "n", "f", "o", "r", "m", "a", "t", "i", "o", "n", "_",
      "s", "c", "h", "e", "m", "a">>

\* str::split on a one-character separator: always at least one segment
RECURSIVE split(_, _)
split(s, sep) ==
    IF \A i \in DOMAIN s : s[i] /= sep THEN <<s>>
    ELSE LET i == CHOOSE j \in DOMAIN s :
                      s[j] = sep /\ \A k \in 1..(j - 1) : s[k] /= sep
         IN <<SubSeq(s, 1, i - 1)>> \o split(SubSeq(s, i + 1, Len(s)), sep)

\* mutant: every table scan ends the traversal, catalog scans included
pre_visit_stop_at_any_scan(v, p) ==
    IF p.kind = "LogicalPlan::TableScan"
    THEN [v |-> [seen_data_scans |->
                    v.seen_data_scans
                    \/ split(p.table_name, Dot)[1] /= information_schema],
          ok |-> FALSE]
    ELSE [v |-> v, ok |-> TRUE]

\* mutant: the name is tested with starts_with instead of its first segment
pre_visit_starts_with(v, p) ==
    IF p.kind = "LogicalPlan::TableScan"
       /\ ~(/\ Len(p.table_name) >= Len(information_schema)
            /\ SubSeq(p.table_name, 1, Len(information_schema)) = information_schema)
    THEN [v |-> [seen_data_scans |-> TRUE], ok |-> FALSE]
    ELSE [v |-> v, ok |-> TRUE]

\* lines 535-544: the visitor's state after the call, and the bool it returns
pre_visit(v, p) ==
    IF p.kind = "LogicalPlan::TableScan"
       /\ split(p.table_name, Dot)[1] /= information_schema
    THEN [v |-> [seen_data_scans |-> TRUE], ok |-> FALSE]
    ELSE [v |-> v, ok |-> TRUE]

\* the children LogicalPlan::accept descends into
accept_inputs(p) ==
    CASE p.kind \in {"LogicalPlan::Projection", "LogicalPlan::Filter",
                     "LogicalPlan::Aggregate", "LogicalPlan::Sort",
                     "LogicalPlan::Limit", "LogicalPlan::Skip",
                     "LogicalPlan::Repartition"} -> <<p.input>>
      [] p.kind = "LogicalPlan::Join" -> <<p.left, p.right>>
      [] p.kind = "LogicalPlan::Union" -> p.inputs
      [] p.kind = "LogicalPlan::Extension" -> node_inputs(p.node)
      [] OTHER -> <<>>

\* LogicalPlan::accept as called at line 550: pre-order, stops at the first
\* visit that returns false
RECURSIVE accept(_, _)
RECURSIVE accept_each(_, _)

accept(p, v) ==
    LET pre == pre_visit(v, p) IN
    IF ~pre.ok THEN pre ELSE accept_each(accept_inputs(p), pre.v)

accept_each(ps, v) ==
    IF ps = <<>> THEN [v |-> v, ok |-> TRUE]
    ELSE LET r == accept(Head(ps), v) IN
         IF ~r.ok THEN r ELSE accept_each(Tail(ps), r.v)

\* lines 528-552
is_data_select_query(p) == accept(p, [seen_data_scans |-> FALSE]).v.seen_data_scans

(***************************************************************************)
(* Inputs: metadata snapshots                                              *)
(***************************************************************************)
PartitionIdSets == {{}, {2}, {7}, {1, 2, 7}}

\* PartitionSnapshot of partition id with n chunks
Part(id, has_file, n) ==
    [partition |-> [id |-> id, row |-> [has_main_table_file |-> has_file]],
     chunks |-> [c \in 1..n |-> [id |-> 10 * id + c, row |-> [partition_id |-> id]]]]

Index(table, id, parts) ==
    [table_path |-> table, index |-> [id |-> id, row |-> [name |-> "default"]],
     partitions |-> parts, sort_on |-> None]

IndexSnapshotSamples ==
    { Index("s.t", 1, <<>>),
      Index("s.t", 1, <<Part(1, TRUE, 1), Part(2, TRUE, 1)>>),
      Index("s.u", 2, <<Part(7, TRUE, 2)>>),
      Index("s.w", 3, <<Part(7, FALSE, 1), Part(1, TRUE, 0)>>),
      Index("s.x", 4, <<Part(2, FALSE, 0)>>) }

\* Vec<IndexSnapshot> of up to two entries, the same one twice included
SchemaSnapshotSamples ==
    {<<>>} \cup {<<a>> : a \in IndexSnapshotSamples}
           \cup {<<a, b>> : a \in IndexSnapshotSamples, b \in IndexSnapshotSamples}

ScenarioSnapshots == <<Index("s.t", 1, <<Part(1, TRUE, 1), Part(2, TRUE, 1)>>)>>

\* the per-table snapshot lists a distributed operator carries
EmbeddedSnapshots == <<<<Index("s.u", 2, <<Part(7, TRUE, 2)>>)>>>>

RemoteToLocalMaps ==
    { {}, {<<"remote/2.parquet", "/local/2.parquet">>,
           <<"remote/21.chunk.parquet", "/local/21.chunk.parquet">>} }

(***************************************************************************)
(* Inputs: expressions                                                     *)
(***************************************************************************)
Col(n) == [kind |-> "Expr::Column", name |-> n, relation |-> None]

Lit(v) == [kind |-> "Expr::Literal", value |-> v]

Unary(k, e) == [kind |-> k, expr |-> e]

ScalarUDF(name, args) ==
    [kind |-> "Expr::ScalarUDF", fun |-> [name |-> name, signature |-> "Exact([Binary])"],
     args |-> args]

AggregateUDF(name, args) ==
    [kind |-> "Expr::AggregateUDF",
     fun |-> [name |-> name, signature |-> "Exact([Binary])"], args |-> args]

Binary(l, op, r) == [kind |-> "Expr::BinaryExpr", left |-> l, op |-> op, right |-> r]

SumDistinct == [kind |-> "Expr::AggregateFunction", fun |-> "Sum", args |-> <<Col("a")>>,
                distinct |-> TRUE]

SortExpr == [kind |-> "Expr::Sort", expr |-> Col("a"), asc |-> TRUE, nulls_first |-> FALSE]

SupportedExprs ==
    { Col("a"),
      [kind |-> "Expr::Column", name |-> "a", relation |-> Some("t")],
      [kind |-> "Expr::ScalarVariable", names |-> <<"@@", "version">>],
      Lit(1),
      Binary(Col("a"), "Lt", Lit(1)),
      Binary(Lit(1), "Minus", Binary(Col("a"), "Plus", Col("b"))),
      Unary("Expr::Not", Col("a")),
      Unary("Expr::IsNotNull", Col("a")),
      Unary("Expr::IsNull", Col("a")),
      Unary("Expr::Negative", Lit(1)),
      [kind |-> "Expr::Between", expr |-> Col("a"), negated |-> FALSE,
       low |-> Lit(1), high |-> Lit(2)],
      [kind |-> "Expr::Case", expr |-> Some(Col("a")),
       when_then_expr |-> <<<<Lit(1), Lit(2)>>>>, else_expr |-> Some(Lit(3))],
      [kind |-> "Expr::Case", expr |-> None,
       when_then_expr |-> <<<<Unary("Expr::IsNull", Col("a")), Lit(1)>>,
                            <<Unary("Expr::IsNull", Col("b")), Lit(2)>>>>,
       else_expr |-> None],
      [kind |-> "Expr::Cast", expr |-> Col("a"), data_type |-> "Int64"],
      [kind |-> "Expr::TryCast", expr |-> Col("a"), data_type |-> "Utf8"],
      SortExpr,
      [kind |-> "Expr::ScalarFunction", fun |-> "Lower", args |-> <<Col("a")>>],
      ScalarUDF("CARDINALITY", <<Col("a")>>),
      ScalarUDF("CARDINALITY", <<AggregateUDF("MERGE", <<Col("a"), Col("b")>>)>>),
      SumDistinct,
      AggregateUDF("MERGE", <<Col("a")>>),
      [kind |-> "Expr::Alias", expr |-> AggregateUDF("MERGE", <<Col("a"), Col("b")>>),
       alias |-> "x"],
      [kind |-> "Expr::InList", expr |-> Col("a"), list |-> <<Lit(1), Lit(2)>>,
       negated |-> TRUE],
      [kind |-> "Expr::Wildcard"] }

\* expressions that call a function the registry does not know
UnregisteredExprs ==
    { ScalarUDF("my_udf", <<Col("a")>>),
      AggregateUDF("my_agg", <<Col("a")>>),
      ScalarUDF("cardinality", <<>>),
      AggregateUDF("CARDINALITY", <<Col("a")>>),
      Unary("Expr::Not", ScalarUDF("my_udf", <<Col("a")>>)),
      Binary(Col("a"), "Eq", AggregateUDF("my_agg", <<>>)),
      ScalarUDF("CARDINALITY", <<Lit(1), ScalarUDF("my_udf", <<>>)>>),
      [kind |-> "Expr::Case", expr |-> None,
       when_then_expr |-> <<<<Lit(1), Lit(2)>>, <<Lit(1), ScalarUDF("my_udf", <<>>)>>>>,
       else_expr |-> None],
      [kind |-> "Expr::Case", expr |-> None,
       when_then_expr |-> <<<<Lit(1), Lit(2)>>>>,
       else_expr |-> Some(AggregateUDF("my_agg", <<>>))],
      [kind |-> "Expr::InList", expr |-> Col("a"),
       list |-> <<Lit(1), ScalarUDF("my_udf", <<>>)>>, negated |-> FALSE],
      [kind |-> "Expr::Between", expr |-> Col("a"), negated |-> TRUE,
       low |-> Lit(1), high |-> ScalarUDF("my_udf", <<>>)],
      [kind |-> "Expr::Alias", expr |-> ScalarUDF("my_udf", <<>>), alias |-> "x"] }

ExprSamples == SupportedExprs \cup UnregisteredExprs

(***************************************************************************)
(* Inputs: plans                                                           *)
(***************************************************************************)
CubeTable == [type |-> "CubeTable", index_snapshot |-> "s.t/default",
              remote_to_local_names |-> {}, worker_partition_ids |-> {}]

InfoSchemaTable == [type |-> "InfoSchemaTableProvider"]

Scan(name, source, filters) ==
    [kind |-> "LogicalPlan::TableScan", table_name |-> name, source |-> source,
     projection |-> Some(<<0, 1>>), projected_schema |-> "schema_scan",
     filters |-> filters, alias |-> None, limit |-> None]

TableNameSamples ==
    { <<"s", ".", "t">>,
      information_schema \o <<".", "t", "a", "b", "l", "e", "s">>,
      information_schema,
      information_schema \o <<"2", ".", "t">>,
      <<"I">> \o Tail(information_schema) \o <<".", "t">>,
      <<"I", "n", "f", "o", "r", "m", "a", "t", "i", "o", "n", "_",
        "S", "c", "h", "e", "m", "a", ".", "t">>,
      <<"s", ".">> \o information_schema,
      <<".">> \o information_schema,
      SubSeq(information_schema, 1, 11) \o <<".", "t">>,
      <<>> }

DataScan == Scan(<<"s", ".", "t">>, CubeTable, <<>>)

CatalogScan ==
    Scan(information_schema \o <<".", "t", "a", "b", "l", "e", "s">>, InfoSchemaTable, <<>>)

OtherDataScan ==
    Scan(<<"s", ".", "u">>, [CubeTable EXCEPT !.index_snapshot = "s.u/default"],
         <<Col("b")>>)

ForeignScan == Scan(<<"s", ".", "u">>, InfoSchemaTable, <<>>)

EmptyRelation ==
    [kind |-> "LogicalPlan::EmptyRelation", produce_one_row |-> TRUE, schema |-> "schema_e"]

LeafSamples ==
    {Scan(n, CubeTable, <<>>) : n \in TableNameSamples}
    \cup {DataScan, OtherDataScan, CatalogScan, ForeignScan, EmptyRelation,
          Scan(<<"s", ".", "t">>, CubeTable, <<Binary(Col("a"), "Lt", Lit(1))>>),
          Scan(<<"s", ".", "t">>, CubeTable, <<Col("a"), ScalarUDF("my_udf", <<>>)>>),
          [kind |-> "LogicalPlan::EmptyRelation", produce_one_row |-> FALSE,
           schema |-> "schema_e"],
          [kind |-> "LogicalPlan::CreateExternalTable", name |-> "ext"]}

CoreLeaves == {DataScan, CatalogScan, ForeignScan, EmptyRelation}

Filter(e, input) == [kind |-> "LogicalPlan::Filter", predicate |-> e, input |-> input]

Join(l, r) ==
    [kind |-> "LogicalPlan::Join", left |-> l, right |-> r, on |-> <<<<"a", "b">>>>,
     join_type |-> "Left", schema |-> "schema_j"]

Union(inputs) ==
    [kind |-> "LogicalPlan::Union", inputs |-> inputs, schema |-> "schema_u",
     alias |-> Some("u")]

ClusterSend(input) ==
    [kind |-> "LogicalPlan::Extension",
     node |-> [type |-> "ClusterSendNode", input |-> input,
               snapshots |-> EmbeddedSnapshots]]

TopK(input) ==
    [kind |-> "LogicalPlan::Extension",
     node |-> [type |-> "ClusterAggregateTopK", limit |-> 10, input |-> input,
               group_expr |-> <<Col("a")>>, aggregate_expr |-> <<SumDistinct>>,
               order_by |-> <<[agg_index |-> 0, asc |-> FALSE, nulls_first |-> TRUE]>>,
               schema |-> "schema_k", snapshots |-> EmbeddedSnapshots]]

WrapKinds ==
    {"Projection", "Filter", "Aggregate", "Sort", "Limit", "Skip", "RoundRobin", "Hash",
     "ClusterSend", "TopK", "OtherExtension", "Explain"}

Wrap(k, input) ==
    CASE k = "Projection" ->
           [kind |-> "LogicalPlan::Projection",
            expr |-> <<[kind |-> "Expr::Alias", expr |-> Col("a"), alias |-> "x"], Col("b")>>,
            input |-> input, schema |-> "schema_p"]
      [] k = "Filter" -> Filter(Binary(Col("a"), "Lt", Lit(1)), input)
      [] k = "Aggregate" ->
           [kind |-> "LogicalPlan::Aggregate", input |-> input,
            group_expr |-> <<Col("a")>>,
            aggr_expr |-> <<SumDistinct, AggregateUDF("MERGE", <<Col("b")>>)>>,
            schema |-> "schema_a"]
      [] k = "Sort" -> [kind |-> "LogicalPlan::Sort", expr |-> <<SortExpr>>, input |-> input]
      [] k = "Limit" -> [kind |-> "LogicalPlan::Limit", n |-> 5, input |-> input]
      [] k = "Skip" -> [kind |-> "LogicalPlan::Skip", n |-> 3, input |-> input]
      [] k = "RoundRobin" ->
           [kind |-> "LogicalPlan::Repartition", input |-> input,
            partitioning_scheme |-> [kind |-> "Partitioning::RoundRobinBatch", n |-> 4]]
      [] k = "Hash" ->
           [kind |-> "LogicalPlan::Repartition", input |-> input,
            partitioning_scheme |->
                [kind |-> "Partitioning::Hash", expr |-> <<Col("a"), Col("b")>>, n |-> 4]]
      [] k = "ClusterSend" -> ClusterSend(input)
      [] k = "TopK" -> TopK(input)
      [] k = "OtherExtension" ->
           [kind |-> "LogicalPlan::Extension",
            node |-> [type |-> "OtherNode", inputs |-> <<input>>]]
      [] k = "Explain" ->
           [kind |-> "LogicalPlan::Explain", verbose |-> FALSE, plan |-> input]

PlanSamples ==
    LeafSamples
    \cup {Wrap(k, x) : k \in WrapKinds, x \in CoreLeaves}
    \cup {Join(l, r) : l \in CoreLeaves, r \in CoreLeaves}
    \cup {Union(<<l, r>>) : l \in CoreLeaves, r \in CoreLeaves}
    \cup {Union(<<>>), Union(<<CatalogScan, EmptyRelation, DataScan>>)}
    \cup {Wrap("Limit", ClusterSend(DataScan)),
          Union(<<TopK(DataScan), ClusterSend(OtherDataScan)>>)}
    \cup {Union(<<Scan(n, CubeTable, <<>>), r>>) :
             n \in TableNameSamples, r \in {CatalogScan, DataScan}}
    \cup {Wrap(k1, Join(Wrap(k2, l), r)) :
             k1 \in {"ClusterSend", "TopK", "Limit"},
             k2 \in {"Filter", "Explain", "OtherExtension"},
             l \in {DataScan, CatalogScan}, r \in {OtherDataScan, CatalogScan}}
    \cup {Filter(e, DataScan) : e \in ExprSamples}
    \cup {Wrap("Hash", Filter(e, DataScan)) : e \in UnregisteredExprs}
    \cup {[kind |-> "LogicalPlan::Repartition", input |-> DataScan,
           partitioning_scheme |->
               [kind |-> "Partitioning::Hash", expr |-> <<e>>, n |-> 2]] :
             e \in {Col("a"), ScalarUDF("my_udf", <<>>)}}

\* the filter-over-scan plan of the resolver scenarios
FilterOverScan == Filter(Binary(Col("a"), "Lt", Lit(1)), DataScan)

(***************************************************************************)
(* The state machine                                                       *)
(***************************************************************************)
NoCall == [op |-> "none", self |-> 0, arg |-> <<>>, value |-> <<>>]

Init ==
    /\ \/ plan \in PlanSamples /\ index_snapshots = ScenarioSnapshots
       \/ plan \in {FilterOverScan, Join(DataScan, DataScan)}
          /\ index_snapshots \in SchemaSnapshotSamples
    /\ pc = "start"
    /\ plan_arcs = <<>>
    /\ snapshot_arcs = <<>>
    /\ plans = <<>>
    /\ last = NoCall

\* SerializedPlan::try_new(plan, index_snapshots).await
TryNew ==
    /\ pc = "start"
    /\ LET r == try_new(plan, index_snapshots) IN
       IF IsPanic(r)
       THEN /\ pc' = "panicked"
            /\ UNCHANGED <<plan_arcs, snapshot_arcs, plans>>
       ELSE /\ pc' = "built"
            /\ plan_arcs' = Append(plan_arcs, r.new_plan_arc)
            /\ snapshot_arcs' = Append(snapshot_arcs, r.new_snapshot_arc)
            /\ plans' = Append(plans, r.value)
    /\ last' = [op |-> "try_new", self |-> 0, arg |-> <<>>, value |-> <<>>]
    /\ UNCHANGED <<plan, index_snapshots>>

\* plans[src].with_partition_id_to_execute(ids)
WithPartitionIdToExecute ==
    /\ pc = "built"
    /\ Len(plans) < 1 + MaxDerivatives
    /\ \E src \in DOMAIN plans, ids \in PartitionIdSets :
          /\ plans' = Append(plans, with_partition_id_to_execute(plans[src], ids))
          /\ last' = [op |-> "with_partition_id_to_execute", self |-> src, arg |-> ids,
                      value |-> Len(plans) + 1]
    /\ UNCHANGED <<plan, index_snapshots, pc, plan_arcs, snapshot_arcs>>

\* plans[i].files_to_download()
FilesToDownload ==
    /\ pc = "built"
    /\ \E i \in DOMAIN plans :
          last' = [op |-> "files_to_download", self |-> i, arg |-> <<>>,
                   value |-> files_to_download(plans[i])]
    /\ UNCHANGED <<plan, index_snapshots, pc, plan_arcs, snapshot_arcs, plans>>

\* plans[i].logical_plan(&remote_to_local_names)
LogicalPlan ==
    /\ pc = "built"
    /\ \E i \in DOMAIN plans, m \in RemoteToLocalMaps :
          last' = [op |-> "logical_plan", self |-> i, arg |-> m,
                   value |-> SerializedPlan_logical_plan(plans[i], m)]
    /\ UNCHANGED <<plan, index_snapshots, pc, plan_arcs, snapshot_arcs, plans>>

\* SerializedPlan::is_data_select_query(&plan)
IsDataSelectQuery ==
    /\ last' = [op |-> "is_data_select_query", self |-> 0, arg |-> <<>>,
                value |-> is_data_select_query(plan)]
    /\ UNCHANGED <<plan, index_snapshots, pc, plan_arcs, snapshot_arcs, plans>>

Next ==
    \/ TryNew
    \/ WithPartitionIdToExecute
    \/ FilesToDownload
    \/ LogicalPlan
    \/ IsDataSelectQuery

Spec == Init /\ [][Next]_vars

(***************************************************************************)
(* The planner around SerializedPlan: the metadata store keeps ingesting   *)
(* while plans are in flight, and one query after another is planned.      *)
(***************************************************************************)
\* What a read of the metadata store returns at different moments: the
\* scenario's table; the same after a chunk was added to partition 2; after
\* partition 2 lost its file and partition 7 was created; with a second
\* table's index.
MetastoreReads ==
    { ScenarioSnapshots,
      <<Index("s.t", 1, <<Part(1, TRUE, 1), Part(2, TRUE, 2)>>)>>,
      <<Index("s.t", 1, <<Part(1, TRUE, 1), Part(2, FALSE, 1), Part(7, TRUE, 1)>>)>>,
      <<Index("s.t", 1, <<Part(1, TRUE, 1), Part(2, TRUE, 1)>>),
        Index("s.u", 2, <<Part(7, TRUE, 2)>>)>> }

\* the executable plans of the queries planned one after another
PlanAlternatives == {FilterOverScan, ClusterSend(DataScan), TopK(Join(DataScan, OtherDataScan))}

\* the metadata store changes: the next read of it returns something else
Ingest ==
    /\ index_snapshots' \in MetastoreReads \ {index_snapshots}
    /\ UNCHANGED <<plan, pc, plan_arcs, snapshot_arcs, plans, last>>

InitPlanner ==
    /\ plan \in PlanAlternatives
    /\ index_snapshots \in MetastoreReads
    /\ pc = "start"
    /\ plan_arcs = <<>>
    /\ snapshot_arcs = <<>>
    /\ plans = <<>>
    /\ last = NoCall

NextIngest ==
    \/ TryNew
    \/ WithPartitionIdToExecute
    \/ FilesToDownload
    \/ LogicalPlan
    \/ IsDataSelectQuery
    \/ Ingest

SpecIngest == InitPlanner /\ [][NextIngest]_vars

\* the planner takes up another query; try_new is then called on its plan
Replan ==
    /\ pc = "built"
    /\ plan' \in PlanAlternatives
    /\ serialized_logical_plan(plan') \notin Range(plan_arcs)
    /\ pc' = "start"
    /\ UNCHANGED <<index_snapshots, plan_arcs, snapshot_arcs, plans, last>>

\* the store is read with and without a partition 7 of its own
InitReplan ==
    /\ plan \in PlanAlternatives
    /\ index_snapshots \in
          { ScenarioSnapshots,
            <<Index("s.t", 1, <<Part(1, TRUE, 1), Part(2, FALSE, 1), Part(7, TRUE, 1)>>)>> }
    /\ pc = "start"
    /\ plan_arcs = <<>>
    /\ snapshot_arcs = <<>>
    /\ plans = <<>>
    /\ last = NoCall

NextReplan ==
    \/ TryNew
    \/ WithPartitionIdToExecute
    \/ FilesToDownload
    \/ LogicalPlan
    \/ IsDataSelectQuery
    \/ Replan

SpecReplan == InitReplan /\ [][NextReplan]_vars

(***************************************************************************)
(* Vocabulary of the properties                                            *)
(***************************************************************************)
IsFilesCall == last.op = "files_to_download"

\* the SerializedPlan the last call was made on
LastSelf == plans[last.self]

\* Every place of the snapshot that can emit a file for the plan `self`:
\* <<i, k, c>> is index snapshot i, its partition k, and c = 0 for the
\* partition's own file or c >= 1 for its c-th chunk.
Slots(self) ==
    LET idx == SerializedPlan_index_snapshots(self) IN
    { s \in UNION { UNION { { <<i, k, c>> : c \in 0..Len(idx[i].partitions[k].chunks) } :
                            k \in DOMAIN idx[i].partitions } :
                    i \in DOMAIN idx } :
        LET part == idx[s[1]].partitions[s[2]] IN
        /\ part.partition.id \in self.partition_ids_to_execute
        /\ s[3] = 0 => part.partition.row.has_main_table_file }

SlotFile(self, s) ==
    LET part == SerializedPlan_index_snapshots(self)[s[1]].partitions[s[2]] IN
    IF s[3] = 0 THEN [file |-> "partition", id |-> part.partition.id]
    ELSE [file |-> "chunk", id |-> part.chunks[s[3]].id]

SlotBefore(a, b) ==
    \/ a[1] < b[1]
    \/ a[1] = b[1] /\ a[2] < b[2]
    \/ a[1] = b[1] /\ a[2] = b[2] /\ a[3] < b[3]

SlotRank(self, s) == 1 + Cardinality({t \in Slots(self) : SlotBefore(t, s)})

Occurrences(seq, f) == Cardinality({i \in DOMAIN seq : seq[i] = f})

(***************************************************************************)
(* C1: files_to_download returns, in snapshot order (index snapshots,      *)
(* then their partitions), for every partition whose id is in              *)
(* partition_ids_to_execute, the partition's own file if it has one and    *)
(* then each of its chunks' files in chunk order, and nothing else; the    *)
(* two-partition scenario restricted to {2} gives [part 2, chunk of 2].    *)
(***************************************************************************)
C1_FilesInSnapshotOrder ==
    IsFilesCall =>
        /\ Len(last.value) = Cardinality(Slots(LastSelf))
        /\ \A s \in Slots(LastSelf) :
              last.value[SlotRank(LastSelf, s)] = SlotFile(LastSelf, s)
        /\ (index_snapshots = ScenarioSnapshots
            /\ LastSelf.partition_ids_to_execute = {2})
           => last.value = <<[file |-> "partition", id |-> 2], [file |-> "chunk", id |-> 21]>>

C1_Witness ==
    /\ IsFilesCall
    /\ index_snapshots = ScenarioSnapshots
    /\ LastSelf.partition_ids_to_execute = {2}
    /\ Len(last.value) = 2

(***************************************************************************)
(* C2: partition monotonicity.  When files_to_download is called on a      *)
(* plan restricted to S and then on one restricted to a superset S' (same  *)
(* plan tree and snapshot), every file of the first list is in the second. *)
(***************************************************************************)
C2_PartitionMonotonicity ==
    [][(/\ IsFilesCall
        /\ IsFilesCall'
        /\ LastSelf.partition_ids_to_execute \subseteq LastSelf'.partition_ids_to_execute)
       => Range(last.value) \subseteq Range(last'.value)]_vars

C2_Witness ==
    /\ IsFilesCall
    /\ last.value /= <<>>
    /\ \E i \in DOMAIN plans :
          /\ plans[i].partition_ids_to_execute /= {}
          /\ plans[i].partition_ids_to_execute /= LastSelf.partition_ids_to_execute
          /\ plans[i].partition_ids_to_execute \subseteq LastSelf.partition_ids_to_execute
          /\ Slots(plans[i]) /= {}

(***************************************************************************)
(* C3: empty restriction.  With an empty partition_ids_to_execute (the     *)
(* plan try_new returned, or a derivative given the empty set)             *)
(* files_to_download returns the empty list whatever the snapshot holds.   *)
(***************************************************************************)
C3_EmptyRestriction ==
    (IsFilesCall /\ LastSelf.partition_ids_to_execute = {}) => last.value = <<>>

C3_Witness ==
    /\ IsFilesCall
    /\ last.self > 1
    /\ LastSelf.partition_ids_to_execute = {}
    /\ \E i \in DOMAIN index_snapshots : index_snapshots[i].partitions /= <<>>

Contribution(part) ==
    (IF part.partition.row.has_main_table_file THEN 1 ELSE 0) + Len(part.chunks)

RECURSIVE SumContributions(_, _)
SumContributions(parts, ids) ==
    IF parts = <<>> THEN 0
    ELSE (IF Head(parts).partition.id \in ids THEN Contribution(Head(parts)) ELSE 0)
         + SumContributions(Tail(parts), ids)

RECURSIVE SumIndexes(_, _)
SumIndexes(idx, ids) ==
    IF idx = <<>> THEN 0
    ELSE SumContributions(Head(idx).partitions, ids) + SumIndexes(Tail(idx), ids)

(***************************************************************************)
(* C4: no deduplication across index snapshots.  Every file name occurs in *)
(* the result once per place of the snapshot that emits it, so a partition *)
(* id listed by two index snapshots contributes twice and the length is    *)
(* the sum over the selected partition occurrences of their file counts.   *)
(***************************************************************************)
C4_NoDeduplication ==
    IsFilesCall =>
        /\ \A s \in Slots(LastSelf) :
              Occurrences(last.value, SlotFile(LastSelf, s))
                  = Cardinality({t \in Slots(LastSelf) :
                                    SlotFile(LastSelf, t) = SlotFile(LastSelf, s)})
        /\ Len(last.value)
              = SumIndexes(index_snapshots, LastSelf.partition_ids_to_execute)

C4_Witness ==
    /\ IsFilesCall
    /\ 7 \in LastSelf.partition_ids_to_execute
    /\ Len(index_snapshots) = 2
    /\ \A i \in 1..2 : \E k \in DOMAIN index_snapshots[i].partitions :
          index_snapshots[i].partitions[k].partition.id = 7
    /\ Occurrences(last.value, [file |-> "chunk", id |-> 71]) = 2

\* the operator inputs of a plan node (statement nodes have none)
Children(p) ==
    CASE p.kind \in {"LogicalPlan::Projection", "LogicalPlan::Filter",
                     "LogicalPlan::Aggregate", "LogicalPlan::Sort",
                     "LogicalPlan::Limit", "LogicalPlan::Skip",
                     "LogicalPlan::Repartition"} -> {p.input}
      [] p.kind = "LogicalPlan::Join" -> {p.left, p.right}
      [] p.kind = "LogicalPlan::Union" -> Range(p.inputs)
      [] p.kind = "LogicalPlan::Extension" ->
           IF p.node.type \in {"ClusterSendNode", "ClusterAggregateTopK"}
           THEN {p.node.input} ELSE Range(p.node.inputs)
      [] OTHER -> {}

RECURSIVE Scans(_)
Scans(p) ==
    IF p.kind = "LogicalPlan::TableScan" THEN {p}
    ELSE UNION {Scans(c) : c \in Children(p)}

\* the name is the catalog namespace itself or starts with it and a dot
InCatalogNamespace(name) ==
    LET n == Len(information_schema) IN
    /\ Len(name) >= n
    /\ SubSeq(name, 1, n) = information_schema
    /\ Len(name) > n => name[n + 1] = Dot

RECURSIVE EraseSources(_)
EraseSources(p) ==
    CASE p.kind = "LogicalPlan::TableScan" -> [p EXCEPT !.source = "erased"]
      [] p.kind \in {"LogicalPlan::Projection", "LogicalPlan::Filter",
                     "LogicalPlan::Aggregate", "LogicalPlan::Sort",
                     "LogicalPlan::Limit", "LogicalPlan::Skip",
                     "LogicalPlan::Repartition"} ->
           [p EXCEPT !.input = EraseSources(@)]
      [] p.kind = "LogicalPlan::Join" ->
           [p EXCEPT !.left = EraseSources(@), !.right = EraseSources(@)]
      [] p.kind = "LogicalPlan::Union" ->
           [p EXCEPT !.inputs = [k \in DOMAIN @ |-> EraseSources(@[k])]]
      [] p.kind = "LogicalPlan::Extension" ->
           [p EXCEPT !.node.input = EraseSources(@)]
      [] OTHER -> p

(***************************************************************************)
(* C6: round trip.  For a plan try_new accepts, logical_plan of the        *)
(* serialized plan has the same operators in the same positions, the same  *)
(* child order, expressions, scalar fields and schemas as the original;    *)
(* only the table scans' source objects are rebuilt.                       *)
(***************************************************************************)
C6_RoundTrip ==
    last.op = "logical_plan" => EraseSources(last.value) = EraseSources(plan)

C6_Witness ==
    /\ last.op = "logical_plan"
    /\ plan.kind = "LogicalPlan::Extension"
    /\ plan.node.type = "ClusterAggregateTopK"
    /\ plan.node.input.kind = "LogicalPlan::Join"
    /\ plan.node.input.left.kind = "LogicalPlan::Filter"
    /\ plan.node.input.right.kind = "LogicalPlan::TableScan"

ExprChildren(e) ==
    CASE e.kind \in {"Expr::Alias", "Expr::Not", "Expr::IsNotNull", "Expr::IsNull",
                     "Expr::Negative", "Expr::Cast", "Expr::TryCast", "Expr::Sort"} ->
           {e.expr}
      [] e.kind = "Expr::BinaryExpr" -> {e.left, e.right}
      [] e.kind = "Expr::Between" -> {e.expr, e.low, e.high}
      [] e.kind = "Expr::Case" ->
           Range(e.expr) \cup Range(e.else_expr)
           \cup UNION {{e.when_then_expr[i][1], e.when_then_expr[i][2]} :
                          i \in DOMAIN e.when_then_expr}
      [] e.kind \in {"Expr::ScalarFunction", "Expr::ScalarUDF",
                     "Expr::AggregateFunction", "Expr::AggregateUDF"} -> Range(e.args)
      [] e.kind = "Expr::InList" -> {e.expr} \cup Range(e.list)
      [] OTHER -> {}

RECURSIVE CallsUnregistered(_)
CallsUnregistered(e) ==
    \/ e.kind = "Expr::ScalarUDF" /\ e.fun.name /= "CARDINALITY"
    \/ e.kind = "Expr::AggregateUDF" /\ e.fun.name /= "MERGE"
    \/ \E c \in ExprChildren(e) : CallsUnregistered(c)

\* the expressions a plan node holds itself
NodeExprs(p) ==
    CASE p.kind = "LogicalPlan::Projection" -> Range(p.expr)
      [] p.kind = "LogicalPlan::Filter" -> {p.predicate}
      [] p.kind = "LogicalPlan::Aggregate" -> Range(p.group_expr) \cup Range(p.aggr_expr)
      [] p.kind = "LogicalPlan::Sort" -> Range(p.expr)
      [] p.kind = "LogicalPlan::TableScan" -> Range(p.filters)
      [] p.kind = "LogicalPlan::Repartition" ->
           IF p.partitioning_scheme.kind = "Partitioning::Hash"
           THEN Range(p.partitioning_scheme.expr) ELSE {}
      [] p.kind = "LogicalPlan::Extension" ->
           IF p.node.type = "ClusterAggregateTopK"
           THEN Range(p.node.group_expr) \cup Range(p.node.aggregate_expr) ELSE {}
      [] OTHER -> {}

RECURSIVE Unsupported(_)
Unsupported(p) ==
    \/ p.kind \in {"LogicalPlan::Explain", "LogicalPlan::CreateExternalTable"}
    \/ p.kind = "LogicalPlan::Extension"
       /\ p.node.type \notin {"ClusterSendNode", "ClusterAggregateTopK"}
    \/ p.kind = "LogicalPlan::TableScan" /\ p.source.type /= "CubeTable"
    \/ \E e \in NodeExprs(p) : CallsUnregistered(e)
    \/ \E c \in Children(p) : Unsupported(c)

RECURSIVE PlanSize(_)
PlanSize(p) ==
    LET kids == CASE "input" \in DOMAIN p -> <<p.input>>
                  [] "left" \in DOMAIN p -> <<p.left, p.right>>
                  [] "inputs" \in DOMAIN p -> p.inputs
                  [] "node" \in DOMAIN p -> <<p.node.input>>
                  [] OTHER -> <<>>
    IN 1 + Len(Flatten([k \in DOMAIN kids |-> [n \in 1..PlanSize(kids[k]) |-> n]]))

(***************************************************************************)
(* C7: no partial output.  try_new fails, and leaves no SerializedPlan,    *)
(* exactly when the plan holds at some depth a scan of a source that is    *)
(* not the worker table kind, a call of a scalar or aggregate UDF whose    *)
(* name the registry does not know, an explain or external-table node, or  *)
(* an extension node of an unknown kind; otherwise it returns a plan with  *)
(* the whole tree, the snapshot it was given and no partition ids.         *)
(***************************************************************************)
C7_NoPartialOutput ==
    pc /= "start" =>
        /\ pc = "panicked" <=> Unsupported(plan)
        /\ pc = "panicked" => plans = <<>> /\ plan_arcs = <<>> /\ snapshot_arcs = <<>>
        /\ pc = "built" =>
              /\ Len(plans) >= 1
              /\ PlanSize(plan_arcs[plans[1].logical_plan]) = PlanSize(plan)
              /\ SerializedPlan_index_snapshots(plans[1]) = index_snapshots
              /\ plans[1].partition_ids_to_execute = {}

C7_Witness ==
    /\ pc = "panicked"
    /\ plan.kind = "LogicalPlan::Extension"
    /\ plan.node.type = "ClusterSendNode"
    /\ plan.node.input.kind = "LogicalPlan::Join"
    /\ ~Unsupported(plan.node.input.right)
    /\ plan.node.input.left.kind = "LogicalPlan::Filter"

Tree(self) == plan_arcs[self.logical_plan]

(***************************************************************************)
(* C8: with_partition_id_to_execute returns a plan with the source's tree  *)
(* and snapshot and exactly the supplied partition ids, and changes no     *)
(* existing plan: every derivative keeps the original tree and index       *)
(* snapshots and the plan try_new returned keeps the empty set.            *)
(***************************************************************************)
C8_DerivativeFrame ==
    [][/\ \A i \in DOMAIN plans :
             /\ plans'[i] = plans[i]
             /\ Tree(plans[i])' = Tree(plans[i])
             /\ SerializedPlan_index_snapshots(plans[i])'
                   = SerializedPlan_index_snapshots(plans[i])
       /\ (pc = "built" /\ Len(plans') > Len(plans)) =>
             LET d == plans'[Len(plans')]
                 src == plans[last'.self] IN
             /\ last'.op = "with_partition_id_to_execute"
             /\ d.partition_ids_to_execute = last'.arg
             /\ d.logical_plan = src.logical_plan
             /\ d.schema_snapshot = src.schema_snapshot
       /\ pc' = "built" =>
             /\ plans'[1].partition_ids_to_execute = {}
             /\ \A i \in DOMAIN plans' :
                   /\ Tree(plans[i])' = serialized_logical_plan(plan)
                   /\ SerializedPlan_index_snapshots(plans[i])' = index_snapshots
      ]_vars

C8_Witness ==
    /\ last.op = "with_partition_id_to_execute"
    /\ last.self > 1
    /\ plans[last.self].partition_ids_to_execute = {7}
    /\ last.arg = {2}
    /\ Len(plans) = 3

(***************************************************************************)
(* C9: every table scan of the plan logical_plan(remote_to_local_names)    *)
(* returns, at any depth (inside cluster-dispatch and top-K sub-plans and  *)
(* every join or union branch), has the source to_worker_table builds from *)
(* the stored table, the supplied map and that plan's own                  *)
(* partition_ids_to_execute.                                               *)
(***************************************************************************)
C9_ScansBoundToAssignment ==
    last.op = "logical_plan" =>
        /\ Cardinality(Scans(last.value)) = Cardinality(Scans(plan))
        /\ \A s \in Scans(last.value) :
              /\ s.source.remote_to_local_names = last.arg
              /\ s.source.worker_partition_ids = LastSelf.partition_ids_to_execute
              /\ \E o \in Scans(plan) :
                    s.source = to_worker_table(o.source, last.arg,
                                               LastSelf.partition_ids_to_execute)

C9_Witness ==
    /\ last.op = "logical_plan"
    /\ last.arg /= {}
    /\ LastSelf.partition_ids_to_execute = {2}
    /\ \E i \in DOMAIN plans : plans[i].partition_ids_to_execute = {7}
    /\ plan.kind = "LogicalPlan::Extension"
    /\ plan.node.input.kind = "LogicalPlan::Join"
    /\ Cardinality(Scans(last.value)) = 2

(***************************************************************************)
(* C10: derivatives are independent read-only views.  Whatever call is     *)
(* made, on whichever plan, no existing plan changes its tree, snapshot or *)
(* partition ids; producing one more derivative changes the result of      *)
(* files_to_download and of logical_plan for no existing plan; and the     *)
(* result a call returns is the one its plan gives on its own.             *)
(***************************************************************************)
C10_IndependentViews ==
    [][/\ \A i \in DOMAIN plans :
             /\ plans'[i] = plans[i]
             /\ Tree(plans[i])' = Tree(plans[i])
             /\ SerializedPlan_index_snapshots(plans[i])'
                   = SerializedPlan_index_snapshots(plans[i])
       /\ plans' /= plans =>
             \A i \in DOMAIN plans :
                /\ files_to_download(plans[i])' = files_to_download(plans[i])
                /\ \A m \in RemoteToLocalMaps :
                      SerializedPlan_logical_plan(plans[i], m)'
                          = SerializedPlan_logical_plan(plans[i], m)
       /\ last'.op = "files_to_download" =>
             last'.value = files_to_download(plans[last'.self])
       /\ last'.op = "logical_plan" =>
             last'.value = SerializedPlan_logical_plan(plans[last'.self], last'.arg)
      ]_vars

C10_Witness ==
    /\ Len(plans) = 3
    /\ plans[2].partition_ids_to_execute = {1, 2, 7}
    /\ plans[3].partition_ids_to_execute = {7}
    /\ last.op = "logical_plan"
    /\ last.self = 2
    /\ Scans(last.value) /= {}

(***************************************************************************)
(* C11                                                                     *)
(***************************************************************************)
\* C11: a plan in flight is frozen against later ingestion.  When the
\* metadata store changes, no SerializedPlan changes, the IndexSnapshot list
\* each one holds is the same as before, and files_to_download of each plan
\* and derivative returns the same list as before the change.  A list that files_to_download returned stays, after the store
\* changed and for a derivative made after the change, the list that the same
\* plan and any other derivative with the same partition ids return.
C11_FrozenAgainstIngestion ==
    [][/\ index_snapshots' /= index_snapshots =>
             \A i \in DOMAIN plans :
                /\ plans'[i] = plans[i]
                /\ SerializedPlan_index_snapshots(plans[i])'
                      = SerializedPlan_index_snapshots(plans[i])
                /\ files_to_download(plans[i])' = files_to_download(plans[i])
       /\ (IsFilesCall' /\ (index_snapshots' /= index_snapshots \/ plans' /= plans)) =>
             \A j \in DOMAIN plans' :
                (/\ plans'[j].schema_snapshot = plans'[last'.self].schema_snapshot
                 /\ plans'[j].partition_ids_to_execute
                       = plans'[last'.self].partition_ids_to_execute)
                => last'.value = files_to_download(plans[j])'
      ]_vars

\* a worker was given its files, the store has since changed in the
\* partitions the plan captured, and another derivative has the same ids
C11_Witness ==
    /\ IsFilesCall
    /\ last.value /= <<>>
    /\ index_snapshots /= SerializedPlan_index_snapshots(LastSelf)
    /\ Len(index_snapshots) = Len(SerializedPlan_index_snapshots(LastSelf))
    /\ \E j \in DOMAIN plans :
          /\ j /= last.self
          /\ plans[j].partition_ids_to_execute = LastSelf.partition_ids_to_execute

(***************************************************************************)
(* C12                                                                     *)
(***************************************************************************)
\* the ids of the PartitionSnapshots of the plan's schema snapshot
SnapshotPartitionIds(self) ==
    LET indexes == SerializedPlan_index_snapshots(self) IN
    UNION {{get_id(indexes[i].partitions[k].partition) : k \in DOMAIN indexes[i].partitions} :
              i \in DOMAIN indexes}

\* the ids of the plan that no PartitionSnapshot of its schema snapshot has
Orphans(self) == partition_ids_to_execute(self) \ SnapshotPartitionIds(self)

\* C12 as stated: in every plan reachable by try_new followed by any
\* sequence of with_partition_id_to_execute calls, every id in
\* partition_ids_to_execute is the id of some PartitionSnapshot inside some
\* IndexSnapshot of the plan's schema snapshot.
C12_IdsWithinSnapshot == \A i \in DOMAIN plans : Orphans(plans[i]) = {}

\* C12 as amended: the set of try_new's plan is empty; the set of a
\* derivative is exactly the set given to with_partition_id_to_execute, so
\* it lies within the snapshot's partition ids if and only if the supplied
\* set did; an orphan id is kept and contributes no file, files_to_download
\* being what it is without the orphans.
C12_IdsAsSupplied ==
    /\ pc = "built" => partition_ids_to_execute(plans[1]) = {}
    /\ last.op = "with_partition_id_to_execute" =>
          /\ partition_ids_to_execute(plans[last.value]) = last.arg
          /\ Orphans(plans[last.value]) = last.arg \ SnapshotPartitionIds(plans[last.self])
    /\ \A i \in DOMAIN plans :
          files_to_download(plans[i])
             = files_to_download(
                  [plans[i] EXCEPT !.partition_ids_to_execute = @ \ Orphans(plans[i])])

\* a derivative was just made with an orphan id next to ids of the snapshot
C12_Witness ==
    /\ last.op = "with_partition_id_to_execute"
    /\ Orphans(plans[last.value]) /= {}
    /\ partition_ids_to_execute(plans[last.value]) \cap SnapshotPartitionIds(plans[last.value])
          /= {}

(***************************************************************************)
(* C13                                                                     *)
(***************************************************************************)
RECURSIVE SubExprs(_)
SubExprs(e) == {e} \cup UNION {SubExprs(c) : c \in ExprChildren(e)}

RECURSIVE PlanNodes(_)
PlanNodes(p) == {p} \cup UNION {PlanNodes(c) : c \in Children(p)}

\* the calls of user-defined functions anywhere in the plan
UdfCalls(p) ==
    {e \in UNION {SubExprs(x) : x \in UNION {NodeExprs(n) : n \in PlanNodes(p)}} :
        e.kind \in {"Expr::ScalarUDF", "Expr::AggregateUDF"}}

CallShape(e) == [kind |-> e.kind, name |-> e.fun.name, args |-> e.args]

\* C13: function-kind stability.  Serializing a call of a registered scalar
\* or aggregate function and materializing it again gives a call of the same
\* sort whose function name is the original name and whose argument list has
\* the same length and the same argument expressions in the same order; the
\* calls in the plan that logical_plan returns are those of the plan given to
\* try_new.
C13_FunctionKindStability ==
    /\ \A c \in UdfCalls(plan) :
          ~IsPanic(serialized_expr(c)) =>
             LET m == SerializedExpr_expr(serialized_expr(c)) IN
             /\ m.kind = c.kind
             /\ m.fun.name = c.fun.name
             /\ Len(m.args) = Len(c.args)
             /\ \A k \in DOMAIN c.args : m.args[k] = c.args[k]
    /\ last.op = "logical_plan" =>
          {CallShape(c) : c \in UdfCalls(last.value)} = {CallShape(c) : c \in UdfCalls(plan)}

\* logical_plan returned a plan with a scalar call whose argument is an
\* aggregate call of two different arguments
C13_Witness ==
    /\ last.op = "logical_plan"
    /\ \E c \in UdfCalls(last.value) :
          /\ c.kind = "Expr::ScalarUDF"
          /\ c.fun.name = "CARDINALITY"
          /\ Len(c.args) = 1
          /\ c.args[1].kind = "Expr::AggregateUDF"
          /\ c.args[1].fun.name = "MERGE"
          /\ Len(c.args[1].args) = 2
          /\ c.args[1].args[1] /= c.args[1].args[2]

(***************************************************************************)
(* C14                                                                     *)
(***************************************************************************)
\* the text of the name before its first '.', the whole name if it has none
TextBeforeFirstDot(name) ==
    LET dots == {i \in DOMAIN name : name[i] = Dot} IN
    IF dots = {} THEN name
    ELSE SubSeq(name, 1, (CHOOSE i \in dots : \A j \in dots : i <= j) - 1)

\* the names the claim gives for either side
NamesNotFlagged ==
    { information_schema \o <<".", "t", "a", "b", "l", "e", "s">>, information_schema }

NamesFlagged ==
    { information_schema \o <<"2", ".", "t">>,
      <<"I", "n", "f", "o", "r", "m", "a", "t", "i", "o", "n", "_",
        "S", "c", "h", "e", "m", "a", ".", "t">>,
      <<"s", ".">> \o information_schema,
      <<>> }

\* C14: is_data_select_query decides by exact, case-sensitive equality of
\* the text before the first '.' of the table name with "information_schema".
\* It returns a boolean for every table name; for a single scan it is false
\* for "information_schema.tables" and "information_schema" and true for
\* "information_schema2.t", "Information_Schema.t", "s.information_schema"
\* and the empty name; after a scan that does not set the flag the traversal
\* goes on to the siblings, so a union of scans is flagged exactly when one of
\* its scans is.
C14_ExactFirstSegment ==
    last.op = "is_data_select_query" =>
        /\ last.value \in BOOLEAN
        /\ plan.kind = "LogicalPlan::TableScan" =>
              /\ last.value <=> TextBeforeFirstDot(plan.table_name) /= information_schema
              /\ plan.table_name \in NamesNotFlagged => ~last.value
              /\ plan.table_name \in NamesFlagged => last.value
        /\ (/\ plan.kind = "LogicalPlan::Union"
            /\ \A k \in DOMAIN plan.inputs : plan.inputs[k].kind = "LogicalPlan::TableScan") =>
              (last.value <=>
                 \E k \in DOMAIN plan.inputs :
                    TextBeforeFirstDot(plan.inputs[k].table_name) /= information_schema)

\* the undotted catalog name did not set the flag and the sibling after it did
C14_Witness ==
    /\ last.op = "is_data_select_query"
    /\ last.value
    /\ plan.kind = "LogicalPlan::Union"
    /\ Len(plan.inputs) = 2
    /\ plan.inputs[1].kind = "LogicalPlan::TableScan"
    /\ plan.inputs[1].table_name = information_schema
    /\ plan.inputs[2].kind = "LogicalPlan::TableScan"
    /\ plan.inputs[2].table_name \notin NamesNotFlagged

(***************************************************************************)
(* C15                                                                     *)
(***************************************************************************)
IsDistributed(p) ==
    /\ p.kind = "LogicalPlan::Extension"
    /\ p.node.type \in {"ClusterSendNode", "ClusterAggregateTopK"}

\* the nodes of the original plan, each with the node at the same place of
\* the materialized plan
RECURSIVE NodePairs(_, _)
NodePairs(p, q) ==
    {<<p, q>>}
    \cup IF q.kind = p.kind /\ Len(accept_inputs(q)) = Len(accept_inputs(p))
         THEN UNION {NodePairs(accept_inputs(p)[k], accept_inputs(q)[k]) :
                        k \in DOMAIN accept_inputs(p)}
         ELSE {}

\* C15: the distributed operators keep their scan surface.  Wherever the
\* plan given to try_new has a cluster-dispatch or distributed top-K node,
\* the plan logical_plan returns, under any file map and any partition-id
\* restriction, has at the same place an operator of the same kind with the
\* same per-table IndexSnapshot lists (not filtered by the partition ids),
\* the same limit, sort columns and schema (top-K), and as inner plan the
\* materialization of the original inner plan under the same file map and
\* partition-id set.
C15_DistributedOperatorsKept ==
    last.op = "logical_plan" =>
        \A pq \in NodePairs(plan, last.value) :
           IsDistributed(pq[1]) =>
              /\ pq[2].kind = "LogicalPlan::Extension"
              /\ pq[2].node.type = pq[1].node.type
              /\ pq[2].node.snapshots = pq[1].node.snapshots
              /\ pq[1].node.type = "ClusterAggregateTopK" =>
                    /\ pq[2].node.limit = pq[1].node.limit
                    /\ pq[2].node.order_by = pq[1].node.order_by
                    /\ pq[2].node.schema = pq[1].node.schema
              /\ pq[2].node.input
                    = SerializedLogicalPlan_logical_plan(
                         serialized_logical_plan(pq[1].node.input), last.arg,
                         partition_ids_to_execute(LastSelf))

\* a cluster-dispatch node below another operator was materialized for a
\* worker whose partition ids are not those of the node's snapshots
C15_Witness ==
    /\ last.op = "logical_plan"
    /\ last.arg /= {}
    /\ partition_ids_to_execute(LastSelf) = {2}
    /\ plan.kind = "LogicalPlan::Limit"
    /\ IsDistributed(plan.input)
    /\ last.value.input.node.snapshots = EmbeddedSnapshots
    /\ last.value.input.node.input.source.worker_partition_ids = {2}

(***************************************************************************)
(* C16                                                                     *)
(***************************************************************************)
\* the partition ids in the snapshot lists that the distributed operators of
\* a serialized tree carry
RECURSIVE EmbeddedPartitionIds(_)
EmbeddedPartitionIds(t) ==
    LET below ==
            CASE t.kind \in {"SerializedLogicalPlan::Projection",
                            "SerializedLogicalPlan::Filter",
                            "SerializedLogicalPlan::Aggregate",
                            "SerializedLogicalPlan::Sort",
                            "SerializedLogicalPlan::Limit",
                            "SerializedLogicalPlan::Skip",
                            "SerializedLogicalPlan::Repartition",
                            "SerializedLogicalPlan::ClusterSend",
                            "SerializedLogicalPlan::ClusterAggregateTopK"} ->
                   EmbeddedPartitionIds(t.input)
              [] t.kind = "SerializedLogicalPlan::Join" ->
                   EmbeddedPartitionIds(t.left) \cup EmbeddedPartitionIds(t.right)
              [] t.kind = "SerializedLogicalPlan::Union" ->
                   UNION {EmbeddedPartitionIds(t.inputs[k]) : k \in DOMAIN t.inputs}
              [] OTHER -> {}
        own ==
            IF t.kind \in {"SerializedLogicalPlan::ClusterSend",
                           "SerializedLogicalPlan::ClusterAggregateTopK"}
            THEN LET indexes == Flatten(t.snapshots) IN
                 UNION {{get_id(indexes[i].partitions[k].partition) :
                            k \in DOMAIN indexes[i].partitions} : i \in DOMAIN indexes}
            ELSE {}
    IN own \cup below

\* C16: files_to_download depends only on the index_snapshots given to
\* try_new and on partition_ids_to_execute.  Two SerializedPlans built from
\* different executable plans with the same index_snapshots argument return
\* the same list for every partition-id set, a returned list is the one any
\* plan with the same snapshot lists and ids returns, and restricting a plan
\* to the ids that only the snapshots inside its distributed operators have
\* gives no file.
C16_FilesIgnoreThePlan ==
    /\ \A i \in DOMAIN plans : \A j \in DOMAIN plans :
          (/\ i < j
           /\ plans[i].logical_plan /= plans[j].logical_plan
           /\ SerializedPlan_index_snapshots(plans[i])
                 = SerializedPlan_index_snapshots(plans[j]))
          => \A ids \in PartitionIdSets :
                files_to_download(with_partition_id_to_execute(plans[i], ids))
                   = files_to_download(with_partition_id_to_execute(plans[j], ids))
    /\ IsFilesCall =>
          \A j \in DOMAIN plans :
             (/\ SerializedPlan_index_snapshots(plans[j])
                    = SerializedPlan_index_snapshots(LastSelf)
              /\ partition_ids_to_execute(plans[j]) = partition_ids_to_execute(LastSelf))
             => last.value = files_to_download(plans[j])
    /\ \A i \in DOMAIN plans :
          files_to_download(
             with_partition_id_to_execute(
                plans[i],
                EmbeddedPartitionIds(plan_arcs[plans[i].logical_plan])
                   \ SnapshotPartitionIds(plans[i]))) = <<>>

\* files were resolved for a plan whose distributed operator carries a
\* partition of the plan's id set that the schema snapshot does not have,
\* while a plan built from another executable plan is alive
C16_Witness ==
    /\ IsFilesCall
    /\ last.value /= <<>>
    /\ (EmbeddedPartitionIds(plan_arcs[LastSelf.logical_plan])
           \cap partition_ids_to_execute(LastSelf)) \ SnapshotPartitionIds(LastSelf) /= {}
    /\ \E j \in DOMAIN plans :
          /\ plans[j].logical_plan /= LastSelf.logical_plan
          /\ plan_arcs[plans[j].logical_plan] /= plan_arcs[LastSelf.logical_plan]
          /\ SerializedPlan_index_snapshots(plans[j]) = SerializedPlan_index_snapshots(LastSelf)

====
